---- MODULE Spec2Model ----
(***************************************************************************)
(* A model of the g935 headset client: the request/response transport of   *)
(* src/src/device.rs, the dirty-tracked configuration of src/src/config.rs *)
(* and the event loop of src/src/lib.rs.                                   *)
(*                                                                         *)
(* A frame is a sequence of bytes (naturals below 256).  A read of the     *)
(* device is a record [kind, frame, dur]: kind "data" with the frame read  *)
(* (the empty frame when the read timed out) or kind "err" when the HID    *)
(* layer failed; dur is the time the blocking read took, in milliseconds.  *)
(***************************************************************************)
EXTENDS Integers, Sequences, FiniteSets, TLC

VARIABLES
    msg_buffer,   \* Device.msg_buffer: the FIFO of unhandled frames
    rq,           \* the position of Device::request: [pc, data, elapsed]
    ret,          \* the value the last transport call returned: [op, kind, frame]
    arrivals,     \* history: the buffered frames not yet handed out, in arrival order
    ev,           \* history: what the last transport step did: [op, r, had, oldest]
    config,       \* the Config handed to run_with_config: five ConfigFields
    features,     \* Headset.features: the resolved feature indices
    button_state, \* run_with_config's button_state
    counter,      \* run_with_config's counter of idle polls
    lp,           \* the position of the application: build, poll, periodic, sync, panicked
    lev,          \* history: what the last step of the application did
    calc,         \* the pure function applied last: [fn, arg, out]
    late,         \* history: the replies the device still owes, and whether the
                  \* last frame a request read answers its write: [owed, got]
    sent,         \* history: what the device was sent last, and whether an
                  \* operation failed: [buttons, side, logo, failed]
    popped        \* history: how many buffered frames the loop has popped

dev_vars == <<msg_buffer, rq, ret, arrivals, ev, late>>

loop_vars == <<config, features, button_state, counter, lp, lev, sent, popped>>

vars == <<msg_buffer, rq, ret, arrivals, ev, config, features, button_state, counter, lp, lev,
          calc, late, sent, popped>>

\* ------------------------------------------------------------ constants

\* device.rs:58, the timeout of each read inside request
READ_TIMEOUT_MS == 500

\* device.rs:70, Duration::from_secs(2), in milliseconds
REQUEST_DEADLINE_MS == 2000

\* lib.rs:161, the timeout of the event loop's poll
TIMEOUT_IN_MS == 500

\* How many frames may be waiting in the buffer when a request is started.
MaxCarried == 1

\* ------------------------------------------------------------ frames

Zeros(n) == [i \in 1..n |-> 0]

\* features.rs:14-31, Feature::request: the 20-byte frame of a feature request
FeatureFrame(index, body) ==
    <<17, 255, index>> \o body \o Zeros(17 - Len(body))

\* The request frames the transport is exercised with: enable-buttons on
\* feature 5 and get-battery on feature 8.
RequestFrames == { FeatureFrame(5, <<33, 1>>), FeatureFrame(8, <<1>>) }

\* Frames the device sends on its own while a request waits: a short report
\* (shorter than the header) and a feature-addressed push that shares three
\* bytes of the header with a request frame.
UnsolicitedFrames ==
    { <<8, 16>>,
      FeatureFrame(5, <<0, 1>>) }

\* The time a read that returns a frame may have taken: a frame arrives
\* before the timeout of the read runs out.
FrameDurations == {250}

\* device.rs:38-49, Device::read: what one read of up to `timeout` ms can give
ReadOutcomes(frames, timeout) ==
    [kind : {"data"}, frame : frames, dur : {d \in FrameDurations : d <= timeout}]
        \cup { [kind |-> "data", frame |-> <<>>, dur |-> timeout],
               [kind |-> "err", frame |-> <<>>, dur |-> timeout] }

\* ------------------------------------------------------------ transport

Header(f) == SubSeq(f, 1, 4)

\* A bug: only the first three bytes of the header are compared.
NotTheReplyThreeBytes(result, data) ==
    Len(result) < 4 \/ SubSeq(result, 1, 3) # SubSeq(data, 1, 3)

\* device.rs:60, the test that sends a frame to the buffer
NotTheReply(result, data) == Len(result) < 4 \/ Header(result) # Header(data)

\* A bug: the overall deadline is never looked at.
DeadlineNeverPassed(elapsed) == FALSE

\* device.rs:70, the overall deadline
DeadlinePassed(elapsed) == elapsed > REQUEST_DEADLINE_MS

\* device.rs:63, msg_buffer.push_back
PushBack(buf, f) == Append(buf, f)

\* A bug: the newest buffered frame is handed out first.
PopBack(buf) == buf[Len(buf)]

\* device.rs:78, msg_buffer.pop_front: the frame handed out
PopFront(buf) == Head(buf)

\* A bug: the frame handed out stays in the buffer.
AfterPopKeeps(buf) == buf

\* device.rs:78, msg_buffer.pop_front: what stays
AfterPop(buf) == Tail(buf)

\* A bug: a read that timed out is turned into None.
ReadToOptionEmptyIsNone(r) ==
    IF r.kind = "err" \/ r.frame = <<>>
    THEN [kind |-> "None", frame |-> <<>>]
    ELSE [kind |-> "Some", frame |-> r.frame]

\* device.rs:86, self.read(timeout).ok().map(..): an error is None, any frame
\* read (the empty one of a timeout too) is Some
ReadToOption(r) ==
    IF r.kind = "err"
    THEN [kind |-> "None", frame |-> <<>>]
    ELSE [kind |-> "Some", frame |-> r.frame]

\* device.rs:57-73: one turn of the loop of Device::request on the read r
RequestStep(buf, data, elapsed, r) ==
    LET now == elapsed + r.dur IN
    IF r.kind = "err"
    THEN [done |-> TRUE, kind |-> "IoErr", frame |-> <<>>, buf |-> buf, elapsed |-> now]
    ELSE IF NotTheReply(r.frame, data)
    THEN [done |-> DeadlinePassed(now), kind |-> "Timeout", frame |-> <<>>,
          buf |-> PushBack(buf, r.frame), elapsed |-> now]
    ELSE IF Len(r.frame) = 0
    THEN [done |-> TRUE, kind |-> "Timeout", frame |-> <<>>, buf |-> buf, elapsed |-> now]
    ELSE [done |-> TRUE, kind |-> "Ok", frame |-> r.frame, buf |-> buf, elapsed |-> now]

Idle == [pc |-> "idle", data |-> <<>>, elapsed |-> 0]

NoRead == [kind |-> "none", frame |-> <<>>, dur |-> 0]

\* What a transport call returned: the call, the kind of value, the frame,
\* and for a request its frame and the time since its write.
Returned(op, kind, frame, data, elapsed) ==
    [op |-> op, kind |-> kind, frame |-> frame, data |-> data, elapsed |-> elapsed]

\* What the last step did: the call, the read it made (NoRead when none), how
\* many frames were buffered before it, and the oldest arrival before it.
Event(op, r, had, oldest) == [op |-> op, r |-> r, had |-> had, oldest |-> oldest]

\* A frame is the reply to the request `data` when its first four bytes are
\* those of `data`.
IsReplyTo(frame, data) ==
    Len(frame) >= 4 /\ \A i \in 1..4 : frame[i] = data[i]

\* device.rs:77-87, Device::next_unrequested_msg on the read r (used only when
\* the buffer is empty): the Option returned, the buffer left, the read made
NextUnrequestedMsg(buf, r) ==
    IF buf # <<>>
    THEN [kind |-> "Some", frame |-> PopFront(buf), buf |-> AfterPop(buf), r |-> NoRead]
    ELSE LET o == ReadToOption(r)
         IN  [kind |-> o.kind, frame |-> o.frame, buf |-> buf, r |-> r]

\* ------------------------------------------------------------ device scripts

\* What the device does while one request waits: whether the write went
\* through, and the reads it answers, in order; once they are used up the
\* device stays silent and every read times out.
Script(written, reads) == [written |-> written, reads |-> reads]

Frame(f) == [kind |-> "data", frame |-> f, dur |-> 250]

Silence == [kind |-> "data", frame |-> <<>>, dur |-> READ_TIMEOUT_MS]

ChannelError == [kind |-> "err", frame |-> <<>>, dur |-> READ_TIMEOUT_MS]

\* The device answers the waiting request: it echoes the request frame.
Reply == [kind |-> "reply", frame |-> <<>>, dur |-> 250]

\* The device answers the waiting request with a frame whose fifth byte, the
\* light zone of a set_lights reply, is 2.
BadZoneReply == [kind |-> "bad_zone", frame |-> <<>>, dur |-> 250]

\* The device answers the waiting request with a frame whose fifth byte is i:
\* the index of the feature asked for, or the length of the device name.
IndexReply(i) == [kind |-> "index", frame |-> <<i>>, dur |-> 250]

\* The read a script item stands for while the request `data` waits.
ReadOf(item, data) ==
    IF item.kind = "reply" THEN Frame(data)
    ELSE IF item.kind = "index" THEN Frame([data EXCEPT ![5] = item.frame[1]])
    ELSE IF item.kind = "bad_zone" THEN Frame([data EXCEPT ![5] = 2])
    ELSE item

\* The next read of a script: a device whose script has ended stays silent.
NextRead(reads, data) == IF reads = <<>> THEN Silence ELSE ReadOf(Head(reads), data)

\* The script after its next read.
RestOf(reads) == IF reads = <<>> THEN reads ELSE Tail(reads)

RECURSIVE RequestLoop(_, _, _, _)
\* device.rs:57-73: after the iteration s the loop of Device::request returns
\* or goes round again
LoopOn(s, data, reads) ==
    IF s.done THEN s ELSE RequestLoop(s.buf, data, s.elapsed, RestOf(reads))

\* device.rs:57-73: the loop of Device::request run to its end on a script
RequestLoop(buf, data, elapsed, reads) ==
    LoopOn(RequestStep(buf, data, elapsed, NextRead(reads, data)), data, reads)

\* device.rs:52-74: Device::request, as [done, kind, frame, buf, elapsed]
Request(buf, data, script) ==
    IF ~script.written
    THEN [done |-> TRUE, kind |-> "IoErr", frame |-> <<>>, buf |-> buf, elapsed |-> 0]
    ELSE RequestLoop(buf, data, 0, script.reads)

\* ------------------------------------------------------------ lights.rs

\* lights.rs:16-48, enum Effect; the fields a variant lacks are kept at 0
Off == [kind |-> "Off", red |-> 0, green |-> 0, blue |-> 0, rate |-> 0, brightness |-> 0]

Static(r, g, b) ==
    [kind |-> "Static", red |-> r, green |-> g, blue |-> b, rate |-> 0, brightness |-> 0]

Breathing(r, g, b, rate, brightness) ==
    [kind |-> "Breathing", red |-> r, green |-> g, blue |-> b,
     rate |-> rate, brightness |-> brightness]

ColorCycle(rate, brightness) ==
    [kind |-> "ColorCycle", red |-> 0, green |-> 0, blue |-> 0,
     rate |-> rate, brightness |-> brightness]

\* lights.rs:67-74, struct lights::Config
LightsConfig(light, effect, profile_type) ==
    [light |-> light, effect |-> effect, profile_type |-> profile_type]

\* A bug: the low byte is written first.
ToLeBytes(x) == <<x % 256, x \div 256>>

\* u16::to_be_bytes
ToBeBytes(x) == <<x \div 256, x % 256>>

\* lights.rs:85-90, the discriminant of the effect
EffectKindByte(e) ==
    CASE e.kind = "Off" -> 0
      [] e.kind = "Static" -> 1
      [] e.kind = "Breathing" -> 2
      [] e.kind = "ColorCycle" -> 3

\* lights.rs:76-125, AsBytes for lights::Config: params[k] is element k + 1
LightsAsBytes(c) ==
    LET e == c.effect
        rate == ToBeBytes(e.rate)
    IN  [k \in 1..13 |->
           CASE k = 1 -> IF c.light = "Logo" THEN 0 ELSE 1
             [] k = 2 -> EffectKindByte(e)
             [] k = 3 /\ e.kind \in {"Static", "Breathing"} -> e.red
             [] k = 4 /\ e.kind \in {"Static", "Breathing"} -> e.green
             [] k = 5 /\ e.kind \in {"Static", "Breathing"} -> e.blue
             [] k = 6 /\ e.kind = "Breathing" -> rate[1]
             [] k = 7 /\ e.kind = "Breathing" -> rate[2]
             [] k = 9 /\ e.kind = "Breathing" -> e.brightness
             [] k = 8 /\ e.kind = "ColorCycle" -> rate[1]
             [] k = 9 /\ e.kind = "ColorCycle" -> rate[2]
             [] k = 10 /\ e.kind = "ColorCycle" -> e.brightness
             [] k = 13 -> IF c.profile_type = "Temporary" THEN 0 ELSE 2
             [] OTHER -> 0]

\* lights.rs:128-143 and the indexing of bytes[12]: whether
\* lights::Config::from_bytes returns instead of panicking
LightsFromBytesReturns(bytes) ==
    /\ Len(bytes) >= 13
    /\ bytes[1] <= 1
    /\ bytes[2] <= 3
    /\ bytes[13] \in {0, 2}

\* u16::from_be_bytes
FromBeBytes(hi, lo) == 256 * hi + lo

\* lights.rs:145-163, the effect from_bytes decodes: bytes[k] is element k + 1
EffectFromBytes(bytes) ==
    CASE bytes[2] = 0 -> Off
      [] bytes[2] = 1 -> Static(bytes[3], bytes[4], bytes[5])
      [] bytes[2] = 2 ->
            Breathing(bytes[3], bytes[4], bytes[5], FromBeBytes(bytes[6], bytes[7]), bytes[9])
      [] bytes[2] = 3 -> ColorCycle(FromBeBytes(bytes[8], bytes[9]), bytes[10])

\* lights.rs:127-178, FromBytes for lights::Config, where it returns
LightsFromBytes(bytes) ==
    LightsConfig(IF bytes[1] = 0 THEN "Logo" ELSE "Side",
                 EffectFromBytes(bytes),
                 IF bytes[13] = 0 THEN "Temporary" ELSE "Permanent")

\* ------------------------------------------------------------ battery.rs

\* A bug: the first branch ends below 3525.
estimate_battery_levelBelow(voltage) ==
    IF voltage < 3525
    THEN [branch |-> "linear", hundredths |-> <<3 * voltage - 10100>>]
    ELSE IF voltage > 4030
    THEN [branch |-> "full", hundredths |-> <<10000>>]
    ELSE [branch |-> "quartic", hundredths |-> <<>>]

\* battery.rs:8-21: the branch taken and its value in hundredths of a percent,
\* 0.03 * v - 101.0 being (3 * v - 10100) / 100; the value of the quartic is
\* not computed
estimate_battery_level(voltage) ==
    IF voltage <= 3525
    THEN [branch |-> "linear", hundredths |-> <<3 * voltage - 10100>>]
    ELSE IF voltage > 4030
    THEN [branch |-> "full", hundredths |-> <<10000>>]
    ELSE [branch |-> "quartic", hundredths |-> <<>>]

\* A bug: an unknown charging status reads as a full battery.
ChargingStatusFromByteUnknownIsFull(s) ==
    CASE s = 1 -> "Discharging"
      [] s = 3 -> "Charging"
      [] OTHER -> "Full"

\* battery.rs:57-68, the match on bytes[2]
ChargingStatusFromByte(s) ==
    CASE s = 1 -> "Discharging"
      [] s = 3 -> "Charging"
      [] s = 7 -> "Full"
      [] OTHER -> "Discharging"

\* battery.rs:55-78, BatteryStatus::from_bytes: bytes[k] is element k + 1
BatteryStatusFromBytes(bytes) ==
    [charging_status |-> ChargingStatusFromByte(bytes[3]),
     voltage |-> FromBeBytes(bytes[1], bytes[2]),
     charge |-> estimate_battery_level(FromBeBytes(bytes[1], bytes[2]))]

\* ------------------------------------------------------------ headset operations

\* The result of a Headset operation: whether it returned Ok, whether it
\* panicked, and the message buffer it leaves.
OpResult(ok, panic, buf) == [ok |-> ok, panic |-> panic, buf |-> buf]

\* lib.rs:118-128: enable_buttons on the response r of its request
EnableButtonsOn(r) ==
    IF r.kind # "Ok"
    THEN OpResult(FALSE, FALSE, r.buf)
    ELSE OpResult(Len(r.frame) >= 5, Len(r.frame) < 5, r.buf)

\* lib.rs:112-129, Headset::enable_buttons
EnableButtons(buf, feats, enable, script) ==
    EnableButtonsOn(Request(buf, FeatureFrame(feats.gkey, <<33, IF enable THEN 1 ELSE 0>>),
                            script))

\* lib.rs:139-141: the decoded Config is returned, or from_bytes panics
Decoded(returns, buf) == OpResult(returns, ~returns, buf)

\* lib.rs:137-141: set_lights on the response r of its request
SetLightsOn(r) ==
    IF r.kind # "Ok"
    THEN OpResult(FALSE, FALSE, r.buf)
    ELSE Decoded(LightsFromBytesReturns(SubSeq(r.frame, 5, Len(r.frame))), r.buf)

\* lib.rs:132-142, Headset::set_lights
SetLights(buf, feats, lights, script) ==
    SetLightsOn(Request(buf, FeatureFrame(feats.lights, <<49>> \o LightsAsBytes(lights)),
                        script))

\* ------------------------------------------------------------ config.rs

\* Option::None of a handler field
None == "None"

\* The handlers an application installs.
Handlers == {"h1", "h2"}

\* The light effects an application configures.
Effects == {Off, Static(255, 0, 0)}

\* A bug: a fresh field starts clean.
FieldDefaultClean(val) == [val |-> val, dirty |-> FALSE]

\* config.rs:53-61, ConfigField::default
FieldDefault(val) == [val |-> val, dirty |-> TRUE]

\* A bug: set stores the value and forgets to mark the field.
FieldSetKeepsFlag(field, val) == [field EXCEPT !.val = val]

\* config.rs:65-73, ConfigField::set (with force_sync)
FieldSet(field, val) == [val |-> val, dirty |-> TRUE]

\* config.rs:71-73, ConfigField::force_sync
ForceSync(field) == [field EXCEPT !.dirty = TRUE]

\* A bug: needs_sync asks for a sync whatever the flag says.
NeedsSyncAlways(field) == TRUE

\* config.rs:76-80, ConfigField::needs_sync: the value it returns
NeedsSync(field) == field.dirty

\* A bug: needs_sync leaves the flag as it is.
AfterNeedsSyncKeepsFlag(field) == field

\* config.rs:76-80, ConfigField::needs_sync: the field it leaves
AfterNeedsSync(field) == [field EXCEPT !.dirty = FALSE]

\* config.rs:107-120 with #[derive(Default)], Config::default
ConfigDefault ==
    [button_handler |-> FieldDefault(None),
     power_state_change_handler |-> FieldDefault(None),
     periodic_handler |-> FieldDefault(None),
     side_light_effect |-> FieldDefault(Off),
     logo_light_effect |-> FieldDefault(Off)]

HandlerFields == {"button_handler", "power_state_change_handler", "periodic_handler"}

EffectFields == {"side_light_effect", "logo_light_effect"}

\* config.rs:175-233, the setters: set_button_handler, set_power_state_change_handler,
\* set_periodic_handler, set_side_light_effect, set_logo_light_effect
ConfigSet(cfg, field, val) == [cfg EXCEPT ![field] = FieldSet(@, val)]

\* A call of a setter as a callback makes it: the field, and the handler or
\* the effect it is given (the other of the two is not used).
SetterCall(field, handler, effect) ==
    [field |-> field, handler |-> handler, effect |-> effect]

\* The value a setter call stores.
Assigned(call) == IF call.field \in HandlerFields THEN call.handler ELSE call.effect

\* The setter calls with the values each field can take.
SetterCalls ==
    { SetterCall(f, h, Off) : f \in HandlerFields, h \in Handlers \cup {None} }
        \cup { SetterCall(f, None, e) : f \in EffectFields, e \in Effects }

RECURSIVE RunCallback(_, _)
\* The body of a handler: the setter calls it makes on the Config it is given.
RunCallback(cfg, calls) ==
    IF calls = <<>>
    THEN cfg
    ELSE RunCallback(ConfigSet(cfg, Head(calls).field, Assigned(Head(calls))), Tail(calls))

\* A bug: set_dirty marks nothing.
SetDirtyNothing(cfg) == cfg

\* config.rs:153-159, Config::set_dirty
SetDirty(cfg) ==
    [button_handler |-> ForceSync(cfg.button_handler),
     power_state_change_handler |-> ForceSync(cfg.power_state_change_handler),
     periodic_handler |-> ForceSync(cfg.periodic_handler),
     side_light_effect |-> ForceSync(cfg.side_light_effect),
     logo_light_effect |-> ForceSync(cfg.logo_light_effect)]

\* A bug: the handler taken out for the call is never put back.
RestoreNever(field, handler) == field

\* config.rs:169-171 (also 191-193, 213-215): the handler is put back when the
\* callback left the field's flag clear
Restore(field, handler) ==
    IF ~field.dirty THEN [field EXCEPT !.val = handler] ELSE field

\* config.rs:162-173, 182-197, 206-217: call_button_handler,
\* call_power_state_change_handler and call_periodic_handler on the field f,
\* where `calls` is what the callback does
CallHandler(cfg, f, calls) ==
    IF cfg[f].val = None
    THEN cfg
    ELSE LET handler == cfg[f].val
             taken == [cfg EXCEPT ![f] = [val |-> None, dirty |-> FALSE]]
             after == RunCallback(taken, calls)
         IN  [after EXCEPT ![f] = Restore(@, handler)]

\* One device operation as the history records it.
OpLog(op, enable, light, effect, ok) ==
    [op |-> op, enable |-> enable, light |-> light, effect |-> effect, ok |-> ok]

\* The result of sync_configuration and of the idle re-push: the Config and
\* the message buffer they leave, whether Ok was returned, whether an
\* operation panicked, and the operations attempted.
Synced(cfg, buf, ok, panic, ops) ==
    [cfg |-> cfg, buf |-> buf, ok |-> ok, panic |-> panic, ops |-> ops]

\* The operation `op` was made for a field and returned r.
SyncedOp(cfg, r, op) ==
    Synced(cfg, r.buf, r.ok, r.panic, <<[op EXCEPT !.ok = r.ok]>>)

\* config.rs:125-127: the button handler field of sync_configuration
SyncButtons(cfg, buf, feats, script) ==
    IF NeedsSync(cfg.button_handler)
    THEN SyncedOp([cfg EXCEPT !.button_handler = AfterNeedsSync(@)],
                  EnableButtons(buf, feats, cfg.button_handler.val # None, script),
                  OpLog("enable_buttons", cfg.button_handler.val # None, "", Off, TRUE))
    ELSE Synced([cfg EXCEPT !.button_handler = AfterNeedsSync(@)], buf, TRUE, FALSE, <<>>)

\* config.rs:131-137 and 139-145: a light effect field of sync_configuration
SyncLight(cfg, buf, feats, f, light, script) ==
    IF NeedsSync(cfg[f])
    THEN SyncedOp([cfg EXCEPT ![f] = AfterNeedsSync(@)],
                  SetLights(buf, feats, LightsConfig(light, cfg[f].val, "Temporary"), script),
                  OpLog("set_lights", FALSE, light, cfg[f].val, TRUE))
    ELSE Synced([cfg EXCEPT ![f] = AfterNeedsSync(@)], buf, TRUE, FALSE, <<>>)

\* config.rs:129: the power state handler field of sync_configuration
SyncPowerHandler(cfg) ==
    [cfg EXCEPT !.power_state_change_handler = AfterNeedsSync(@)]

\* The fields synchronized so far, then the field synchronized next.
Join(a, n) == Synced(n.cfg, n.buf, n.ok, n.panic, a.ops \o n.ops)

\* A bug: a failed enable_buttons does not end the call.
ThenSideGoesOn(b, feats, script) ==
    Join(b, SyncLight(SyncPowerHandler(b.cfg), b.buf, feats,
                      "side_light_effect", "Side", script))

\* config.rs:126-137: the `?` after enable_buttons, then the power state
\* handler field and the side light field
ThenSide(b, feats, script) ==
    IF ~b.ok
    THEN b
    ELSE Join(b, SyncLight(SyncPowerHandler(b.cfg), b.buf, feats,
                           "side_light_effect", "Side", script))

\* config.rs:132-145: the `?` after set_lights(Side), then the logo light field
ThenLogo(s, feats, script) ==
    IF ~s.ok
    THEN s
    ELSE Join(s, SyncLight(s.cfg, s.buf, feats, "logo_light_effect", "Logo", script))

\* config.rs:124-148, Config::sync_configuration; scripts[i] is what the
\* device does during the i-th request
SyncConfiguration(cfg, buf, feats, scripts) ==
    ThenLogo(ThenSide(SyncButtons(cfg, buf, feats, scripts[1]), feats, scripts[2]),
             feats, scripts[3])

\* ------------------------------------------------------------ buttons.rs

\* Whether bit `mask` (a power of two) of the byte b is set.
BitSet(b, mask) == (b \div mask) % 2 = 1

\* buttons.rs:91-99, Buttons::from_bytes
ButtonsFromBytes(bytes) ==
    [g1 |-> BitSet(bytes[5], 1), g2 |-> BitSet(bytes[5], 2), g3 |-> BitSet(bytes[5], 4)]

\* buttons.rs:94, bytes[4]: the index is inside the frame
ButtonsFromBytesReturns(bytes) == Len(bytes) >= 5

\* buttons.rs:110-117, Wheel::from_bytes
WheelFromBytes(bytes) == [up |-> BitSet(bytes[2], 1), down |-> BitSet(bytes[2], 2)]

\* buttons.rs:128-140, MicArm::from_bytes
MicArmFromBytes(bytes) ==
    CASE bytes[2] = 16 -> "Up"
      [] bytes[2] = 32 -> "Down"
      [] OTHER -> "Up"

\* buttons.rs:6-16 with #[derive(Default)] and buttons.rs:142-146
ButtonStateDefault ==
    [buttons |-> [g1 |-> FALSE, g2 |-> FALSE, g3 |-> FALSE],
     wheel |-> [up |-> FALSE, down |-> FALSE],
     mic_arm |-> "Up",
     mute_button |-> FALSE]

\* buttons.rs:20-22
mic_flipped_up(self, old) == old.mic_arm = "Down" /\ self.mic_arm = "Up"

\* buttons.rs:25-27
mic_flipped_down(self, old) == old.mic_arm = "Up" /\ self.mic_arm = "Down"

\* buttons.rs:30-32
g1_pressed(self, old) == ~old.buttons.g1 /\ self.buttons.g1

\* buttons.rs:35-37
g1_released(self, old) == old.buttons.g1 /\ ~self.buttons.g1

\* A bug: the G2 edge is read off the G1 key.
g2_pressedReadsG1(self, old) == ~old.buttons.g1 /\ self.buttons.g1

\* buttons.rs:40-42
g2_pressed(self, old) == ~old.buttons.g2 /\ self.buttons.g2

\* buttons.rs:45-47
g2_released(self, old) == old.buttons.g2 /\ ~self.buttons.g2

\* buttons.rs:50-52
g3_pressed(self, old) == ~old.buttons.g3 /\ self.buttons.g3

\* buttons.rs:55-57
g3_released(self, old) == old.buttons.g3 /\ ~self.buttons.g3

\* buttons.rs:60-62
scroll_down(self) == self.wheel.down

\* buttons.rs:65-67
scroll_up(self) == self.wheel.up

\* buttons.rs:70-72
mute_button_pressed(self) == self.mute_button

\* buttons.rs:75-77
scroll_end(self, old) ==
    (scroll_down(old) \/ scroll_up(old)) /\ ~scroll_down(self) /\ ~scroll_up(self)

\* ------------------------------------------------------------ lib.rs: the event loop

\* lib.rs:162, RESET_TIME_IN_SEC
RESET_TIME_IN_SEC == 20

\* A bug: the threshold is computed for polls of twice the timeout.
ResetCounterAfterHalf == (RESET_TIME_IN_SEC * 1000) \div (2 * TIMEOUT_IN_MS)

\* lib.rs:163, RESET_COUNTER_AFTER
RESET_COUNTER_AFTER == (RESET_TIME_IN_SEC * 1000) \div TIMEOUT_IN_MS

\* lib.rs:168-239: the arm of the match that takes the poll's result; the
\* arms are tried in the order of the source
Classify(msg, feats) ==
    LET f == msg.frame
        feature_push == Len(f) >= 4 /\ f[1] = 17 /\ f[2] = 255 /\ f[4] = 0
    IN  IF msg.kind = "None" THEN "none"
        ELSE IF f = <<>> THEN "idle"
        ELSE IF Len(f) = 2 /\ f[1] = 8 /\ f[2] \in {16, 32} THEN "mic_arm"
        ELSE IF Len(f) = 2 /\ f[1] = 8 /\ f[2] = 1 THEN "mute"
        ELSE IF feature_push /\ f[3] = feats.gkey THEN "buttons"
        ELSE IF Len(f) = 5 /\ f[1] = 1 /\ f[3] = 0 /\ f[4] = 0 /\ f[5] = 0 THEN "wheel"
        ELSE IF feature_push /\ f[3] = feats.battery THEN "power"
        ELSE "unhandled"

\* lib.rs:227, rest.iter().all(|&b| b == 0x00)
PayloadAllZero(f) == \A i \in 5..Len(f) : f[i] = 0

\* lib.rs:177-192: one operation of the idle re-push returned r; .ok() drops
\* its error
Repushed(acc, r, op) ==
    Synced(acc.cfg, r.buf, acc.ok /\ r.ok, r.panic, Append(acc.ops, [op EXCEPT !.ok = r.ok]))

\* lib.rs:177-179: enable_buttons of the idle re-push
RepushButtons(acc, feats, script) ==
    Repushed(acc,
             EnableButtons(acc.buf, feats, acc.cfg.button_handler.val # None, script),
             OpLog("enable_buttons", acc.cfg.button_handler.val # None, "", Off, TRUE))

\* A bug: an operation of the re-push that failed ends the re-push.
RepushLightUnlessFailed(acc, feats, f, light, script) ==
    IF acc.panic \/ ~acc.ok
    THEN acc
    ELSE Repushed(acc,
                  SetLights(acc.buf, feats,
                            LightsConfig(light, acc.cfg[f].val, "Temporary"), script),
                  OpLog("set_lights", FALSE, light, acc.cfg[f].val, TRUE))

\* lib.rs:180-192: a set_lights of the idle re-push, reached unless an
\* operation before it panicked
RepushLight(acc, feats, f, light, script) ==
    IF acc.panic
    THEN acc
    ELSE Repushed(acc,
                  SetLights(acc.buf, feats,
                            LightsConfig(light, acc.cfg[f].val, "Temporary"), script),
                  OpLog("set_lights", FALSE, light, acc.cfg[f].val, TRUE))

\* lib.rs:169-193: the three operations of the idle re-push, each with .ok()
IdleRepush(cfg, buf, feats, scripts) ==
    RepushLight(
        RepushLight(
            RepushButtons(Synced(cfg, buf, TRUE, FALSE, <<>>), feats, scripts[1]),
            feats, "side_light_effect", "Side", scripts[2]),
        feats, "logo_light_effect", "Logo", scripts[3])

\* ------------------------------------------------------------ environments

\* How many setter calls one callback makes at most.
MaxCallbackCalls == 1

\* How many frames may wait in the buffer when the device pushes frames, or
\* stays silent, during a request.
MaxBuffered == 1

\* Feature indices as a device assigns them.
TypicalFeatures == [root |-> 0, battery |-> 8, devname |-> 2, gkey |-> 5, lights |-> 4]

\* lib.rs:195-236: the frames the loop dispatches on, for the feature map feats
MicArmUp == <<8, 16>>

MicArmDown == <<8, 32>>

MuteButton == <<8, 1>>

WheelUp == <<1, 1, 0, 0, 0>>

GKeys(feats, keys) == FeatureFrame(feats.gkey, <<0, keys>>)

BatteryPush(feats, voltage_high) == FeatureFrame(feats.battery, <<0, voltage_high>>)

\* The setter calls the callbacks make: a handler is replaced by another one
\* or removed, a light effect is switched on.
CallbackCalls ==
    { SetterCall(f, h, Off) : f \in HandlerFields, h \in {"h2", None} }
        \cup { SetterCall(f, None, Static(255, 0, 0)) : f \in EffectFields }

\* The callbacks: every sequence of at most MaxCallbackCalls such calls.
Callbacks == UNION { [1..n -> CallbackCalls] : n \in 0..MaxCallbackCalls }

\* The device answers at once, or the channel fails on the read or the write.
AnsweringScripts ==
    { Script(TRUE, <<Reply>>),
      Script(TRUE, <<ChannelError>>),
      Script(FALSE, <<>>) }

\* The device stays silent until the request times out.
SilentScript == Script(TRUE, <<>>)

\* A script that puts nothing into the message buffer.
Quiet(script) ==
    ~script.written \/ (script.reads # <<>> /\ Head(script.reads).kind \in {"reply", "index", "bad_zone", "err"})

\* The scripts of the three requests of one sync or re-push: `made` holds the
\* places (1 buttons, 2 side light, 3 logo light) of the requests the call can
\* make, and the scripts of the others are not used.  The device pushes
\* frames or stays silent only while few frames wait in the buffer.
ScriptTriples(E, buf, made) ==
    { t \in [1..3 -> { s \in E.scripts : Len(buf) < MaxBuffered \/ Quiet(s) }] :
        \A i \in (1..3) \ made : t[i] = Script(TRUE, <<Reply>>) }

\* config.rs:125-145: the places of the requests sync_configuration can make
SyncRequests(cfg) ==
    { i \in 1..3 :
        cfg[<<"button_handler", "side_light_effect", "logo_light_effect">>[i]].dirty }

\* A device that answers or fails at once and an application whose handlers
\* call setters: the polls give the frames that reach the handlers.
ConfigEnv ==
    [features |-> {TypicalFeatures},
     polls |-> { Frame(MuteButton),
                 Frame(BatteryPush(TypicalFeatures, 14)),
                 Frame(BatteryPush(TypicalFeatures, 0)),
                 ChannelError },
     scripts |-> AnsweringScripts,
     handlers |-> Handlers,
     effects |-> Effects,
     callbacks |-> Callbacks]

\* A frame of the gkey feature that ends after its fourth byte.
ShortGKeys(feats) == <<17, 255, feats.gkey, 0>>

\* A frame no arm of the loop recognizes.
UnknownFrame == <<9, 9, 9>>

\* A headset in use: every kind of frame the loop can poll, among them idle
\* reads, on a device that answers (not always with a well-formed reply) or
\* fails at once, and an application with one handler whose callbacks leave
\* the Config alone.
HeadsetEnv ==
    [features |-> {TypicalFeatures},
     polls |-> { Silence,
                 Frame(MicArmDown),
                 Frame(MuteButton),
                 Frame(WheelUp),
                 Frame(GKeys(TypicalFeatures, 1)),
                 Frame(ShortGKeys(TypicalFeatures)),
                 Frame(BatteryPush(TypicalFeatures, 14)),
                 Frame(BatteryPush(TypicalFeatures, 0)),
                 Frame(UnknownFrame),
                 ChannelError },
     scripts |-> AnsweringScripts \cup {Script(TRUE, <<BadZoneReply>>)},
     handlers |-> {"h1"},
     effects |-> {Off},
     callbacks |-> {<<>>}]

\* ------------------------------------------------------------ the application

\* What a step of the application did: the step, the arm of the match, the
\* frame polled, whether the step's sync returned Ok, the device operations
\* attempted, the handler calls made, and the place of a panic.
Step(step, class, frame, ok, ops, calls, panic) ==
    [step |-> step, class |-> class, frame |-> frame, ok |-> ok, ops |-> ops,
     calls |-> calls, panic |-> panic]

\* One handler call as the history records it: the field, the handler, what
\* the callback did, and the arguments passed.
CallLog(f, handler, calls, state, power) ==
    [field |-> f, handler |-> handler, calls |-> calls, state |-> state, power |-> power]

\* What the callback of field f may do: nothing is run when no handler is set.
CallbacksFor(E, cfg, f) == IF cfg[f].val = None THEN {<<>>} ELSE E.callbacks

CallsMade(cfg, f, calls, state, power) ==
    IF cfg[f].val = None THEN <<>> ELSE <<CallLog(f, cfg[f].val, calls, state, power)>>

\* The device has been sent nothing.
NothingSent == [buttons |-> "unset", side |-> <<>>, logo |-> <<>>, failed |-> FALSE]

\* An operation has failed: what the device holds is not known any more.
SendFailed == [buttons |-> "unset", side |-> <<>>, logo |-> <<>>, failed |-> TRUE]

\* lib.rs:112-142: what the device holds after the operation `op`: an
\* enable_buttons or a set_lights that returned Ok has changed its own
\* setting, and one that failed is remembered as a failure from then on.
SentOne(s, op) ==
    IF s.failed \/ ~op.ok THEN SendFailed
    ELSE IF op.op = "enable_buttons"
    THEN [s EXCEPT !.buttons = IF op.enable THEN "enabled" ELSE "disabled"]
    ELSE IF op.light = "Side" THEN [s EXCEPT !.side = <<op.effect>>]
    ELSE [s EXCEPT !.logo = <<op.effect>>]

RECURSIVE SentAfter(_, _)
\* What the device holds after the operations `ops`, in their order.
SentAfter(s, ops) ==
    IF ops = <<>> THEN s ELSE SentAfter(SentOne(s, Head(ops)), Tail(ops))

\* The device owes no reply.
NothingOwed == [owed |-> {}, got |-> "none"]

\* No pure function has been applied.
NoCalc == [fn |-> "none", arg |-> <<>>, out |-> <<>>]

Init(E) ==
    /\ msg_buffer = <<>>
    /\ rq = Idle
    /\ ret = Returned("none", "None", <<>>, <<>>, 0)
    /\ arrivals = <<>>
    /\ ev = Event("none", NoRead, 0, <<>>)
    /\ config = ConfigDefault
    /\ features \in E.features
    /\ button_state = ButtonStateDefault
    /\ counter = 0
    /\ lp = "build"
    /\ lev = Step("default", "", <<>>, TRUE, <<>>, <<>>, "")
    /\ calc = NoCalc
    /\ late = NothingOwed
    /\ sent = NothingSent
    /\ popped = 0

\* A setter called by the application before it hands the Config over.
Build(field, val) ==
    /\ lp = "build"
    /\ config' = ConfigSet(config, field, val)
    /\ lev' = Step("set", field, <<>>, TRUE, <<>>, <<>>, "")
    /\ UNCHANGED <<msg_buffer, rq, ret, arrivals, ev, features, button_state, counter, lp, calc, late,
                 sent, popped>>

\* config.rs:175-179
set_button_handler(E) == \E h \in E.handlers \cup {None} : Build("button_handler", h)

\* config.rs:199-203
set_power_state_change_handler(E) ==
    \E h \in E.handlers \cup {None} : Build("power_state_change_handler", h)

\* config.rs:219-223
set_periodic_handler(E) ==
    \E h \in E.handlers \cup {None} : Build("periodic_handler", h)

\* config.rs:225-228
set_side_light_effect(E) == \E e \in E.effects : Build("side_light_effect", e)

\* config.rs:230-233
set_logo_light_effect(E) == \E e \in E.effects : Build("logo_light_effect", e)

\* A bug: the loop goes from the match straight to sync_configuration.
AfterDispatchIsSync == "sync"

\* lib.rs:239-241: after the match, whatever arm was taken, the loop calls
\* the periodic handler
AfterDispatch == "periodic"

\* A bug: an error returned into the loop ends it.
LoopAfterErrorEnds(r, next) == IF r.panic \/ ~r.ok THEN "panicked" ELSE next

\* lib.rs:154-156, 177-192, 243-245: where the loop is after a call that
\* returned r: its error is logged or dropped, only a panic ends the program
LoopAfter(r, next) == IF r.panic THEN "panicked" ELSE next

\* What a sync_configuration call that returned r leaves; a panic inside it
\* ends the program.
AfterSync(step, r) ==
    /\ config' = r.cfg
    /\ msg_buffer' = r.buf
    /\ lp' = LoopAfter(r, "poll")
    /\ lev' = Step(step, "", <<>>, r.ok, r.ops, <<>>,
                   IF r.panic THEN "sync_configuration" ELSE "")

\* A sync_configuration call of run_with_config, as the step `step`.
SyncStep(E, step) ==
    \E scripts \in ScriptTriples(E, msg_buffer, SyncRequests(config)) :
        AfterSync(step, SyncConfiguration(config, msg_buffer, features, scripts))

\* lib.rs:153-165: run_with_config up to its loop
run_with_config(E) ==
    /\ lp = "build"
    /\ SyncStep(E, "run")
    /\ button_state' = ButtonStateDefault
    /\ counter' = 0
    /\ sent' = SentAfter(sent, lev'.ops)
    /\ UNCHANGED <<rq, ret, arrivals, ev, features, calc, late, popped>>

\* lib.rs:173-193: what the idle re-push that returned p leaves
AfterRepush(m, p) ==
    /\ counter' = 0
    /\ msg_buffer' = p.buf
    /\ lp' = LoopAfter(p, AfterDispatch)
    /\ lev' = Step("poll", "idle", m.frame, p.ok, p.ops, <<>>,
                   IF p.panic THEN "set_lights" ELSE "")
    /\ UNCHANGED <<config, button_state>>

\* lib.rs:169-193: the arm of an idle poll
PollIdle(E, m) ==
    IF counter + 1 > RESET_COUNTER_AFTER
    THEN \E scripts \in ScriptTriples(E, m.buf, 1..3) :
            AfterRepush(m, IdleRepush(config, m.buf, features, scripts))
    ELSE /\ counter' = counter + 1
         /\ msg_buffer' = m.buf
         /\ lp' = AfterDispatch
         /\ lev' = Step("poll", "idle", m.frame, TRUE, <<>>, <<>>, "")
         /\ UNCHANGED <<config, button_state>>

\* A bug: the state passed to the handler is the one the loop keeps.
PollButtonsStoresPassed(E, m, class, stored, passed) ==
    \E calls \in CallbacksFor(E, config, "button_handler") :
        /\ button_state' = passed
        /\ config' = CallHandler(config, "button_handler", calls)
        /\ msg_buffer' = m.buf
        /\ lp' = AfterDispatch
        /\ lev' = Step("poll", class, m.frame, TRUE, <<>>,
                       CallsMade(config, "button_handler", calls, passed, ""), "")
        /\ UNCHANGED counter

\* lib.rs:195-223: the arms that call the button handler; `stored` is the
\* button_state the loop keeps and `passed` the one the handler is given
PollButtons(E, m, class, stored, passed) ==
    \E calls \in CallbacksFor(E, config, "button_handler") :
        /\ button_state' = stored
        /\ config' = CallHandler(config, "button_handler", calls)
        /\ msg_buffer' = m.buf
        /\ lp' = AfterDispatch
        /\ lev' = Step("poll", class, m.frame, TRUE, <<>>,
                       CallsMade(config, "button_handler", calls, passed, ""), "")
        /\ UNCHANGED counter

\* lib.rs:224-236: the arm of a push of the battery feature
PollPower(E, m) ==
    LET connected == ~PayloadAllZero(m.frame)
        power_state == IF connected THEN "Connected" ELSE "Disconnected"
        cfg == IF connected THEN SetDirty(config) ELSE config
    IN  \E calls \in CallbacksFor(E, cfg, "power_state_change_handler") :
            /\ config' = CallHandler(cfg, "power_state_change_handler", calls)
            /\ msg_buffer' = m.buf
            /\ lp' = AfterDispatch
            /\ lev' = Step("poll", "power", m.frame, TRUE, <<>>,
                           CallsMade(cfg, "power_state_change_handler", calls,
                                     button_state, power_state), "")
            /\ UNCHANGED <<button_state, counter>>

\* lib.rs:237-238: an unhandled frame is logged, no result is passed over
PollNothing(m, class) ==
    /\ msg_buffer' = m.buf
    /\ lp' = AfterDispatch
    /\ lev' = Step("poll", class, m.frame, TRUE, <<>>, <<>>, "")
    /\ UNCHANGED <<config, button_state, counter>>

\* buttons.rs:94: Buttons::from_bytes indexes past the end of the frame
PollPanics(m, class, place) ==
    /\ msg_buffer' = m.buf
    /\ lp' = "panicked"
    /\ lev' = Step("poll", class, m.frame, FALSE, <<>>, <<>>, place)
    /\ UNCHANGED <<config, button_state, counter>>

\* How many popped frames the history counts.
MaxFollowed == 3

\* device.rs:78: the count of popped frames once a poll has left `left` of
\* the buffer `buf`: a poll pops when the buffer holds a frame
PoppedAfter(n, buf, left) ==
    IF Len(left) < Len(buf) /\ n < MaxFollowed THEN n + 1 ELSE n

\* lib.rs:167-239: the poll of one iteration and the arm it selects
poll(E) ==
    /\ lp = "poll"
    /\ \E r \in (IF msg_buffer # <<>> THEN {NoRead} ELSE E.polls) :
          LET m == NextUnrequestedMsg(msg_buffer, r)
              class == Classify(m, features)
          IN  CASE class = "idle" -> PollIdle(E, m)
                [] class = "mic_arm" ->
                      LET s == [button_state EXCEPT !.mic_arm = MicArmFromBytes(m.frame)]
                      IN  PollButtons(E, m, class, s, s)
                [] class = "mute" ->
                      PollButtons(E, m, class, button_state,
                                  [button_state EXCEPT !.mute_button = TRUE])
                [] class = "buttons" ->
                      IF ButtonsFromBytesReturns(m.frame)
                      THEN LET s == [button_state EXCEPT
                                        !.buttons = ButtonsFromBytes(m.frame)]
                           IN  PollButtons(E, m, class, s, s)
                      ELSE PollPanics(m, class, "Buttons::from_bytes")
                [] class = "wheel" ->
                      LET s == [button_state EXCEPT !.wheel = WheelFromBytes(m.frame)]
                      IN  PollButtons(E, m, class, s, s)
                [] class = "power" -> PollPower(E, m)
                [] OTHER -> PollNothing(m, class)
    /\ sent' = SentAfter(sent, lev'.ops)
    /\ popped' = PoppedAfter(popped, msg_buffer, NextUnrequestedMsg(msg_buffer, NoRead).buf)
    /\ UNCHANGED <<rq, ret, arrivals, ev, features, calc, late>>

\* lib.rs:241: config.call_periodic_handler(self)
periodic(E) ==
    /\ lp = "periodic"
    /\ \E calls \in CallbacksFor(E, config, "periodic_handler") :
          /\ config' = CallHandler(config, "periodic_handler", calls)
          /\ lev' = Step("periodic", "", <<>>, TRUE, <<>>,
                         CallsMade(config, "periodic_handler", calls, button_state, ""), "")
    /\ lp' = "sync"
    /\ UNCHANGED <<msg_buffer, rq, ret, arrivals, ev, features, button_state, counter, calc, late,
                 sent, popped>>

\* lib.rs:243-245: the sync_configuration that ends an iteration
sync(E) ==
    /\ lp = "sync"
    /\ SyncStep(E, "sync")
    /\ sent' = SentAfter(sent, lev'.ops)
    /\ UNCHANGED <<rq, ret, arrivals, ev, features, button_state, counter, calc, late, popped>>

\* The application: it builds a Config with the setters and runs the loop.
Application(E) ==
    \/ set_button_handler(E)
    \/ set_power_state_change_handler(E)
    \/ set_periodic_handler(E)
    \/ set_side_light_effect(E)
    \/ set_logo_light_effect(E)
    \/ run_with_config(E)
    \/ poll(E)
    \/ periodic(E)
    \/ sync(E)

\* ------------------------------------------------------------ Headset::open

\* features.rs:95-116: the fields of FeatureMap in the order of the struct,
\* which is the order initialize resolves them in
FeatureOrder == <<"root", "battery", "devname", "gkey", "lights">>

\* features.rs:100-110: the feature IDs 0x0000, 0x1f20, 0x0005, 0x8010, 0x8070
FeatureId ==
    [root |-> 0, battery |-> 7968, devname |-> 5, gkey |-> 32784, lights |-> 32880]

\* The index of a feature that is not resolved yet.
NoIndex == -1

\* features.rs:85-89: the FeatureMap before initialize has filled it
Unresolved ==
    [root |-> NoIndex, battery |-> NoIndex, devname |-> NoIndex, gkey |-> NoIndex,
     lights |-> NoIndex]

\* features.rs:58-65 with 83: the request of resolve_feature, made on the
\* local root feature of index 0
ResolveFrame(name) == FeatureFrame(0, <<1>> \o ToBeBytes(FeatureId[name]))

\* lib.rs:75-78: the request of get_protocol_version, on the root of the map
PingFrame(feats) == FeatureFrame(feats.root, <<17, 0, 0, 175>>)

\* The place of a feature in FeatureOrder.
PlaceIn(name) == CHOOSE i \in 1..Len(FeatureOrder) : FeatureOrder[i] = name

\* features.rs:85-89 and lib.rs:53-59: what open does after it resolved a feature
AfterFeature(name) ==
    IF PlaceIn(name) < Len(FeatureOrder) THEN FeatureOrder[PlaceIn(name) + 1] ELSE "ping"

\* A bug: open goes on after a request that failed.
OpenAfterGoesOn(r, read, next) ==
    IF r.kind = "Ok" /\ Len(r.frame) < read THEN "panicked" ELSE next

\* lib.rs:53-66 and features.rs:65-67, 87: where open is after the request
\* that returned r and whose response is read up to byte `read`: `?` returns
\* the error, an index past the end of the response panics
OpenAfter(r, read, next) ==
    IF r.kind # "Ok" THEN "failed"
    ELSE IF Len(r.frame) < read THEN "panicked"
    ELSE next

\* features.rs:58-68 and 87: resolve_feature returned r for the feature `name`
Resolved(name, r) ==
    /\ msg_buffer' = r.buf
    /\ features' = IF r.kind = "Ok" /\ Len(r.frame) >= 5
                   THEN [features EXCEPT ![name] = r.frame[5]]
                   ELSE features
    /\ lp' = OpenAfter(r, 5, AfterFeature(name))
    /\ lev' = Step("resolve", name, ResolveFrame(name), r.kind = "Ok", <<>>, <<>>, "")

\* features.rs:82-90, FeatureMap::initialize: one resolve_feature
resolve_feature(E) ==
    /\ \E i \in 1..Len(FeatureOrder) : lp = FeatureOrder[i]
    /\ \E script \in E.open_scripts :
          Resolved(lp, Request(msg_buffer, ResolveFrame(lp), script))
    /\ UNCHANGED <<rq, ret, arrivals, ev, config, button_state, counter, calc, late,
                 sent, popped>>

\* lib.rs:74-88: get_protocol_version returned r
Pinged(r) ==
    /\ msg_buffer' = r.buf
    /\ lp' = OpenAfter(r, 7, "name")
    /\ lev' = Step("ping", "root", PingFrame(features), r.kind = "Ok", <<>>, <<>>, "")

\* lib.rs:59 and 74-88, Headset::get_protocol_version
get_protocol_version(E) ==
    /\ lp = "ping"
    /\ \E script \in E.open_scripts :
          Pinged(Request(msg_buffer, PingFrame(features), script))
    /\ UNCHANGED <<rq, ret, arrivals, ev, config, features, button_state, counter, calc, late,
                 sent, popped>>

\* lib.rs:100-103: the request for the one part of a name of at most 16
\* bytes, made when the length was read
NamePart(len, feats, script) ==
    IF len.kind # "Ok" \/ Len(len.frame) < 5
    THEN len
    ELSE Request(len.buf, FeatureFrame(feats.devname, <<17, 0>>), script)

\* lib.rs:91-108: get_device_name returned r; open returns the Headset
Named(r) ==
    /\ msg_buffer' = r.buf
    /\ lp' = OpenAfter(r, 5, "build")
    /\ lev' = Step("name", "devname", FeatureFrame(features.devname, <<1>>),
                   r.kind = "Ok", <<>>, <<>>, "")

\* lib.rs:66 and 91-108, Headset::get_device_name for a device whose name
\* has at most 16 bytes
get_device_name(E) ==
    /\ lp = "name"
    /\ \E length \in E.name_scripts, part \in E.open_scripts :
          Named(NamePart(Request(msg_buffer, FeatureFrame(features.devname, <<1>>), length),
                         features, part))
    /\ UNCHANGED <<rq, ret, arrivals, ev, config, features, button_state, counter, calc, late,
                 sent, popped>>

\* The indices a device assigns; 0 is also its answer for a feature it lacks.
Indices == {0, 5}

\* A device that resolves the features to any of these indices or fails,
\* and then pushes frames of the features with these indices.
OpenEnv ==
    [features |-> {Unresolved},
     open_scripts |-> { Script(TRUE, <<IndexReply(i)>>) : i \in Indices }
                        \cup {Script(TRUE, <<ChannelError>>)},
     name_scripts |-> {Script(TRUE, <<IndexReply(5)>>), Script(TRUE, <<ChannelError>>)},
     polls |-> { Frame(FeatureFrame(i, <<0, v>>)) : i \in Indices, v \in {0, 14} }
                 \cup {ChannelError},
     scripts |-> {Script(TRUE, <<Reply>>), Script(TRUE, <<ChannelError>>)},
     handlers |-> {"h1"},
     effects |-> {Off},
     callbacks |-> {<<>>}]

\* lib.rs:49-53: open has its Device and is about to initialize the FeatureMap
OpenInit(E) ==
    /\ msg_buffer = <<>>
    /\ rq = Idle
    /\ ret = Returned("none", "None", <<>>, <<>>, 0)
    /\ arrivals = <<>>
    /\ ev = Event("none", NoRead, 0, <<>>)
    /\ config = ConfigDefault
    /\ features \in E.features
    /\ button_state = ButtonStateDefault
    /\ counter = 0
    /\ lp = FeatureOrder[1]
    /\ lev = Step("default", "", <<>>, TRUE, <<>>, <<>>, "")
    /\ calc = NoCalc
    /\ late = NothingOwed
    /\ sent = NothingSent
    /\ popped = 0

OpenNext ==
    \/ resolve_feature(OpenEnv)
    \/ get_protocol_version(OpenEnv)
    \/ get_device_name(OpenEnv)
    \/ Application(OpenEnv)

\* Headset::open on a device that assigns the indices, then the application.
SpecOpen == OpenInit(OpenEnv) /\ [][OpenNext]_vars

ConfigNext == Application(ConfigEnv)

\* The application with handlers that call setters, on a device that answers
\* or fails at once.
SpecConfig == Init(ConfigEnv) /\ [][ConfigNext]_vars

\* A device that may stay silent until a request times out, polled by an
\* application that installs no handler: the polls are idle or announce a
\* reconnect, which makes every field dirty again.
SilentEnv ==
    [features |-> {TypicalFeatures},
     polls |-> { Silence, Frame(BatteryPush(TypicalFeatures, 14)) },
     scripts |-> AnsweringScripts \cup {SilentScript},
     handlers |-> {},
     effects |-> {Off},
     callbacks |-> {<<>>}]

SilentNext == Application(SilentEnv)

\* A device that sends frames of its own before it answers a request, and
\* reconnects again and again, which makes every sync send three requests.
BufferingEnv ==
    [features |-> {TypicalFeatures},
     polls |-> { Frame(MuteButton), Frame(BatteryPush(TypicalFeatures, 14)) },
     scripts |-> { Script(TRUE, <<Reply>>),
                   Script(TRUE, <<Frame(MicArmDown), Reply>>),
                   Script(TRUE, <<Frame(WheelUp), Frame(MicArmUp), Reply>>) },
     handlers |-> {"h1"},
     effects |-> {Off},
     callbacks |-> {<<>>}]

BufferingNext == Application(BufferingEnv)

\* lib.rs:167-246: the loop leaves the position it is at for the next one
Iterates ==
    /\ lp \in {"poll", "periodic", "sync"}
    /\ lp' \in {"poll", "periodic", "sync"}
    /\ lp' # lp

\* lib.rs:167-246: the loop goes round for ever: the poll returns within its
\* timeout, a request within its deadline, and the handlers return.
LoopGoesOn == WF_lp(Iterates)

\* The application on a device that pushes frames while requests wait, with
\* a loop that keeps iterating.
SpecBuffering == Init(BufferingEnv) /\ [][BufferingNext]_vars /\ LoopGoesOn

\* The application on a device whose requests may time out.
SpecSilent == Init(SilentEnv) /\ [][SilentNext]_vars

Next == Application(HeadsetEnv)

\* The application on a headset in use.
Spec == Init(HeadsetEnv) /\ [][Next]_vars

\* ------------------------------------------------------------ claims: configuration

\* The fields sync_configuration pushes to the device, in its order.
SyncedFields == <<"button_handler", "side_light_effect", "logo_light_effect">>

\* The place in SyncedFields of the field a device operation belongs to.
PlaceOf(op) ==
    IF op.op = "enable_buttons" THEN 1 ELSE IF op.light = "Side" THEN 2 ELSE 3

\* The step just taken was a sync_configuration call.
JustSynced == lev.step \in {"run", "sync"}

\* The step being taken is a sync_configuration call.
Syncing == lp \in {"build", "sync"} /\ lp' \in {"poll", "panicked"}

\* C5: a field whose device operation failed in sync_configuration is still
\* dirty after the call (so that the next call attempts the operation again).
C5_FailedFieldStaysDirty ==
    (JustSynced /\ lev.panic = "" /\ lev.ops # <<>> /\ ~lev.ops[Len(lev.ops)].ok)
        => config[SyncedFields[PlaceOf(lev.ops[Len(lev.ops)])]].dirty

\* C6 as stated: in one sync_configuration call the operation of every dirty
\* field is attempted, whether or not an earlier one failed.
C6_OthersStillAttempted ==
    [][(Syncing /\ lev'.panic = "")
          => \A i \in SyncRequests(config) :
                \E k \in 1..Len(lev'.ops) : PlaceOf(lev'.ops[k]) = i]_vars

\* C6 amended: the operations of one sync_configuration call are those of the
\* dirty fields in the order button handler, side light, logo light, up to and
\* including the first that fails; the fields after a failed one are not
\* attempted in that call and are left as they were (still dirty), and the
\* call returns an error exactly when its last operation failed.
C6_FailureEndsTheCall ==
    [][(Syncing /\ lev'.panic = "")
          => LET ops == lev'.ops
                 n == Len(ops)
                 dirty == SyncRequests(config)
             IN  /\ \A k \in 1..n : PlaceOf(ops[k]) \in dirty
                 /\ \A k \in 1..(n - 1) : ops[k].ok /\ PlaceOf(ops[k]) < PlaceOf(ops[k + 1])
                 /\ \A k \in 1..n : \A i \in dirty :
                        i < PlaceOf(ops[k]) => \E j \in 1..k : PlaceOf(ops[j]) = i
                 /\ lev'.ok = (n = 0 \/ ops[n].ok)
                 /\ lev'.ok => \A i \in dirty : \E k \in 1..n : PlaceOf(ops[k]) = i
                 /\ ~lev'.ok =>
                        \A i \in 1..3 : i > PlaceOf(ops[n]) =>
                            config'[SyncedFields[i]] = config[SyncedFields[i]]]_vars

\* C6 witness: enable_buttons failed, nothing else was attempted, and the side
\* and logo effects are still dirty.
C6_Witness ==
    /\ lev.step = "sync" /\ ~lev.ok /\ lev.panic = ""
    /\ Len(lev.ops) = 1 /\ lev.ops[1].op = "enable_buttons"
    /\ config.side_light_effect.dirty /\ config.logo_light_effect.dirty

\* The setter calls of a callback that assign the field f.
OwnCalls(calls, f) == SelectSeq(calls, LAMBDA c : c.field = f)

\* C7: after a handler of the field f was called, the field holds what the
\* callback last assigned to it and is dirty, or, when the callback did not
\* assign it, it holds the handler that was called and is clean.
C7_HandlerRetainedOrReplaced ==
    \A k \in 1..Len(lev.calls) :
        LET c == lev.calls[k]
            own == OwnCalls(c.calls, c.field)
        IN  /\ c.handler # None
            /\ IF own # <<>>
               THEN config[c.field] = [val |-> Assigned(own[Len(own)]), dirty |-> TRUE]
               ELSE config[c.field] = [val |-> c.handler, dirty |-> FALSE]

\* C7 witness: the power state handler ran on a reconnect (after set_dirty)
\* without assigning itself, and is back in its field, clean.
C7_Witness ==
    /\ lev.class = "power" /\ Len(lev.calls) = 1
    /\ lev.calls[1].power = "Connected"
    /\ OwnCalls(lev.calls[1].calls, "power_state_change_handler") = <<>>
    /\ lev.calls[1].calls # <<>>
    /\ config.power_state_change_handler = [val |-> lev.calls[1].handler, dirty |-> FALSE]

\* C8 as stated: after a sync_configuration call in which every device
\* operation succeeded, every tracked field is clean.
C8_AllCleanAfterSync ==
    (JustSynced /\ lev.ok) => \A f \in DOMAIN config : ~config[f].dirty

\* C8 amended: every field of a fresh Config is dirty and stays so under the
\* setters; a field a callback assigns is dirty afterwards; after a
\* sync_configuration call that returned Ok the button handler, power state
\* handler, side light and logo light fields are clean; the periodic handler
\* field is not touched by sync_configuration.
C8_DirtyFieldLaws ==
    /\ [](lp = "build" => \A f \in DOMAIN config : config[f].dirty)
    /\ [](\A k \in 1..Len(lev.calls) : \A j \in 1..Len(lev.calls[k].calls) :
              config[lev.calls[k].calls[j].field].dirty)
    /\ []((JustSynced /\ lev.ok) =>
              \A f \in (DOMAIN config) \ {"periodic_handler"} : ~config[f].dirty)
    /\ [][Syncing => config'.periodic_handler = config.periodic_handler]_vars

\* C8 witness: a sync pushed all three settings with success and left the
\* periodic handler field dirty.
C8_Witness ==
    /\ lev.step = "sync" /\ lev.ok /\ Len(lev.ops) = 3
    /\ config.periodic_handler.dirty
    /\ \A f \in (DOMAIN config) \ {"periodic_handler"} : ~config[f].dirty

\* C9: when no operation fails, the sync that run_with_config makes before
\* its first poll attempts enable_buttons(a button handler is set), then
\* set_lights(Side, side effect), then set_lights(Logo, logo effect), and
\* nothing else, whatever the Config holds.
C9_InitialSyncPushesAll ==
    (lev.step = "run" /\ lev.ok)
        => lev.ops = << OpLog("enable_buttons", config.button_handler.val # None,
                              "", Off, TRUE),
                        OpLog("set_lights", FALSE, "Side",
                              config.side_light_effect.val, TRUE),
                        OpLog("set_lights", FALSE, "Logo",
                              config.logo_light_effect.val, TRUE) >>

\* C9 witness: run_with_config was given Config::default() untouched and its
\* first sync pushed the defaults.
C9_Witness ==
    /\ lev.step = "run" /\ lev.ok /\ Len(lev.ops) = 3
    /\ config.button_handler.val = None
    /\ config.side_light_effect.val = Off
    /\ config.logo_light_effect.val = Off
    /\ ~lev.ops[1].enable

\* C21: sync_configuration makes device operations for dirty fields only and
\* changes no value of the Config: when neither the button handler nor a
\* light effect is dirty it makes no operation, leaves the message buffer as
\* it is and returns Ok.
C21_CleanFieldsAreNotSent ==
    [][Syncing
          => /\ \A k \in 1..Len(lev'.ops) : PlaceOf(lev'.ops[k]) \in SyncRequests(config)
             /\ \A f \in DOMAIN config : config'[f].val = config[f].val
             /\ SyncRequests(config) = {}
                    => (lev'.ops = <<>> /\ lev'.ok /\ msg_buffer' = msg_buffer)]_vars

\* C21 witness: a sync that ended an iteration found nothing to send, in an
\* application that has configured a handler and a light effect.
C21_Witness ==
    /\ lev.step = "sync" /\ lev.ops = <<>> /\ lev.ok
    /\ config.button_handler.val # None
    /\ config.side_light_effect.val # Off

\* config.rs:175-179, 225-233: what the device has to hold for the Config
Desired(cfg) ==
    [buttons |-> IF cfg.button_handler.val # None THEN "enabled" ELSE "disabled",
     side |-> <<cfg.side_light_effect.val>>,
     logo |-> <<cfg.logo_light_effect.val>>,
     failed |-> FALSE]

\* C28: when no device operation has failed, then at the end of every loop
\* iteration, after sync_configuration, the device holds the desired
\* configuration: the buttons are enabled exactly when a button handler is
\* configured, and the side and logo effects are the configured ones.
C28_DeviceHoldsDesiredConfig ==
    (lp = "poll" /\ lev.step \in {"run", "sync"} /\ ~sent.failed) => sent = Desired(config)

\* An iteration in which a handler took the button handler away ended with
\* the buttons disabled and a light effect that a setter had switched on.
C28_Witness ==
    /\ lp = "poll" /\ lev.step = "sync" /\ ~sent.failed
    /\ lev.ops # <<>> /\ lev.ops[1].op = "enable_buttons" /\ ~lev.ops[1].enable
    /\ sent.buttons = "disabled"
    /\ sent.side # <<Off>>

\* ------------------------------------------------------------ claims: event loop

\* C10: the loop does not abort while it classifies a polled frame: whatever
\* frame of at most 20 bytes the poll returned, the iteration goes on to the
\* periodic handler.
C10_LoopSurvivesEveryFrame ==
    (lev.step = "poll" /\ Len(lev.frame) <= 20 /\ lev.ops = <<>>) => lp = "periodic"

\* C11: an error returned by sync_configuration (a request timeout among
\* them) or by an operation of the idle re-push does not end the loop: after
\* the failed sync the loop polls, after the failed re-push it goes on to the
\* periodic handler of the same iteration.
C11_ErrorsDoNotEndLoop ==
    /\ (JustSynced /\ ~lev.ok /\ lev.panic = "") => lp = "poll"
    /\ (lev.step = "poll" /\ lev.class = "idle" /\ ~lev.ok /\ lev.panic = "")
            => lp = "periodic"

\* C11 witness: a request of the closing sync timed out, which left the empty
\* reads of the wait in the buffer, and the loop is at its next poll.
C11_Witness ==
    /\ lev.step = "sync" /\ ~lev.ok /\ lev.panic = ""
    /\ msg_buffer # <<>>
    /\ lp = "poll"

\* The device operations the step just taken made: those of a sync, or of an
\* idle re-push.
JustPushed == JustSynced \/ (lev.step = "poll" /\ lev.class = "idle")

\* C12: a set_lights whose reply is not a valid light configuration has
\* failed for its caller only: when the last operation of a sync or of a
\* re-push is a failed set_lights, the loop is still running.
C12_BadReplyIsAnError ==
    (JustPushed /\ lev.ops # <<>>
        /\ lev.ops[Len(lev.ops)].op = "set_lights" /\ ~lev.ops[Len(lev.ops)].ok)
        => lp # "panicked"

\* The step being taken is the poll of a push of the battery feature.
PollingPower == lp = "poll" /\ lev'.step = "poll" /\ lev'.class = "power"

\* The three fields sync_configuration pushes are dirty in cfg.
AllToPush(cfg) == \A i \in 1..3 : cfg[SyncedFields[i]].dirty

\* The fields the callbacks of the step just taken assigned.
AssignedFields(calls) ==
    UNION { { calls[k].calls[j].field : j \in 1..Len(calls[k].calls) } :
                k \in 1..Len(calls) }

\* C13: the poll of a battery push with a non-zero payload leaves every field
\* dirty (but the power state handler's own, which its call clears); the
\* periodic handler that follows keeps the button handler, side light and
\* logo light fields dirty, and the sync that ends the iteration, when it
\* returns Ok, has attempted enable_buttons, set_lights(Side) and
\* set_lights(Logo); the poll of a push with an all-zero payload makes no
\* field dirty that was clean, but those its callback assigns.
C13_ReconnectForcesFullSync ==
    /\ [][(PollingPower /\ ~PayloadAllZero(lev'.frame))
              => /\ \A f \in (DOMAIN config) \ {"power_state_change_handler"} :
                        config'[f].dirty
                 /\ lev'.calls = <<>> => config'.power_state_change_handler.dirty
                 /\ \A k \in 1..Len(lev'.calls) : lev'.calls[k].power = "Connected"]_vars
    /\ [][(lp = "periodic" /\ AllToPush(config)) => AllToPush(config')]_vars
    /\ [][(lp = "sync" /\ AllToPush(config) /\ lev'.ok)
              => /\ Len(lev'.ops) = 3
                 /\ \A i \in 1..3 : PlaceOf(lev'.ops[i]) = i]_vars
    /\ [][(PollingPower /\ PayloadAllZero(lev'.frame))
              => /\ \A f \in DOMAIN config :
                        config'[f].dirty => (config[f].dirty \/ f \in AssignedFields(lev'.calls))
                 /\ \A k \in 1..Len(lev'.calls) : lev'.calls[k].power = "Disconnected"]_vars

\* C13 witness: the loop polled a battery push with a non-zero payload while
\* no power state handler was set, and every field is dirty for the sync of
\* this iteration.
C13_Witness ==
    /\ lp = "periodic" /\ lev.step = "poll" /\ lev.class = "power"
    /\ ~PayloadAllZero(lev.frame)
    /\ lev.calls = <<>>
    /\ \A f \in DOMAIN config : config[f].dirty

\* The frame f is a push of the feature with index `index`.
IsPushOf(f, index) ==
    Len(f) >= 4 /\ f[1] = 17 /\ f[2] = 255 /\ f[3] = index /\ f[4] = 0

\* C14: whatever indices open resolved, a polled frame [0x11, 0xff, battery
\* index, 0x00, payload...] takes the power arm: the handler calls of that
\* poll are one call of the power state handler (none when no such handler is
\* set), with Disconnected for an all-zero payload and Connected otherwise,
\* and no call of the button handler.
C14_BatteryPushIsPowerEvent ==
    (lev.step = "poll" /\ IsPushOf(lev.frame, features.battery))
        => /\ lev.class = "power"
           /\ Len(lev.calls) = IF config.power_state_change_handler.val = None THEN 0 ELSE 1
           /\ \A k \in 1..Len(lev.calls) :
                 /\ lev.calls[k].field = "power_state_change_handler"
                 /\ lev.calls[k].power = IF PayloadAllZero(lev.frame)
                                         THEN "Disconnected" ELSE "Connected"

\* The step being taken is a poll of the loop.
Polling == lp = "poll" /\ lev'.step = "poll"

\* C15 as stated: a poll that yields a device message restarts the count of
\* idle polls.
C15_MessageRestartsCount ==
    [][(Polling /\ lev'.frame # <<>>) => counter' = 0]_vars

\* C15 amended: the idle counter counts every idle poll, consecutive or not:
\* an idle poll raises it by one, the idle poll that finds it at 20000/500 = 40
\* makes the re-push and sets it to 0, and no other idle poll makes a
\* re-push; a poll that yields a device message or no result, and every
\* other step of the loop, leaves the counter as it is and makes no re-push.
C15_CounterCountsAllIdlePolls ==
    /\ [](counter \in 0..(20000 \div 500))
    /\ [][(Polling /\ lev'.class = "idle")
              => /\ counter' = IF counter = 20000 \div 500 THEN 0 ELSE counter + 1
                 /\ (lev'.ops # <<>>) = (counter = 20000 \div 500)]_vars
    /\ [][(Polling /\ lev'.class # "idle")
              => (counter' = counter /\ lev'.ops = <<>>)]_vars
    /\ [][(~Polling /\ lp # "build") => counter' = counter]_vars

\* C15 witness: a device message was polled while 40 idle polls were counted,
\* and they are still counted.
C15_Witness ==
    /\ lev.step = "poll" /\ lev.frame # <<>> /\ lp = "periodic"
    /\ counter = 20000 \div 500

\* The operation op but for its outcome.
Attempt(op) == [op EXCEPT !.ok = TRUE]

\* C16: the idle poll that finds the counter at the threshold sets it to 0
\* and, unless an operation panics, attempts enable_buttons(a button handler
\* is set), set_lights(Side, side effect) and set_lights(Logo, logo effect)
\* in this order with the values of the Config, whatever its dirty flags are
\* and whichever of the operations failed, and leaves the Config, its dirty
\* flags included, as it was.
C16_IdleRepushIsUnconditional ==
    [][(Polling /\ lev'.class = "idle" /\ counter = RESET_COUNTER_AFTER /\ lev'.panic = "")
          => /\ counter' = 0
             /\ Len(lev'.ops) = 3
             /\ Attempt(lev'.ops[1]) =
                    OpLog("enable_buttons", config.button_handler.val # None, "", Off, TRUE)
             /\ Attempt(lev'.ops[2]) =
                    OpLog("set_lights", FALSE, "Side", config.side_light_effect.val, TRUE)
             /\ Attempt(lev'.ops[3]) =
                    OpLog("set_lights", FALSE, "Logo", config.logo_light_effect.val, TRUE)
             /\ config' = config]_vars

\* C16 witness: a re-push with a button handler set whose enable_buttons
\* failed and whose two set_lights followed, while the fields were clean.
C16_Witness ==
    /\ lev.step = "poll" /\ lev.class = "idle" /\ counter = 0
    /\ Len(lev.ops) = 3 /\ ~lev.ops[1].ok /\ lev.ops[1].enable
    /\ lev.ops[3].ok
    /\ ~AllToPush(config) /\ ~config.button_handler.dirty

\* The handler calls of the step being taken that are calls of field f.
CallsOf(f) == SelectSeq(lev'.calls, LAMBDA c : c.field = f)

OpenRank(at) ==
    IF \E i \in 1..Len(FeatureOrder) : FeatureOrder[i] = at THEN PlaceIn(at)
    ELSE IF at = "ping" THEN Len(FeatureOrder) + 1
    ELSE IF at = "name" THEN Len(FeatureOrder) + 2
    ELSE Len(FeatureOrder) + 3

\* The step being taken sends a resolution request.
Resolving == lev'.step = "resolve" /\ lev' # lev

\* C18: open resolves the features one after the other in the order root,
\* battery, devname, gkey, lights, each once, with the request for its ID; a
\* resolution that fails makes open fail at once, and then nothing further
\* happens: no feature is resolved and no Headset exists; once the last
\* feature is resolved no step sends a resolution request or changes an
\* index.
C18_ResolvedOnceInOrder ==
    /\ [][Resolving
              => /\ OpenRank(lp) <= Len(FeatureOrder)
                 /\ lev'.class = lp /\ lev'.frame = ResolveFrame(lp)
                 /\ IF lev'.ok /\ lp' # "panicked"
                    THEN /\ OpenRank(lp') = OpenRank(lp) + 1
                         /\ \A f \in (DOMAIN features) \ {lp} : features'[f] = features[f]
                    ELSE lp' \in {"failed", "panicked"} /\ features' = features]_vars
    /\ [][(OpenRank(lp) <= Len(FeatureOrder)) => Resolving]_vars
    /\ [][lp \notin {"failed", "panicked"}]_vars
    /\ [][(OpenRank(lp) > Len(FeatureOrder)) => features' = features]_vars
    /\ [](OpenRank(lp) <= Len(FeatureOrder)
            => \A i \in 1..Len(FeatureOrder) :
                  (features[FeatureOrder[i]] = NoIndex) = (i >= OpenRank(lp)))
    /\ [](lp \in {"build", "poll", "periodic", "sync"}
            => \A f \in DOMAIN features : features[f] # NoIndex)

\* C18 witness: the resolution of gkey failed after three features were
\* resolved; open has failed and lights is not resolved.
C18_Witness ==
    /\ lp = "failed" /\ lev.step = "resolve" /\ lev.class = "gkey" /\ ~lev.ok
    /\ features.devname # NoIndex
    /\ features.gkey = NoIndex /\ features.lights = NoIndex

\* C19: the request get_protocol_version addresses to the root feature after
\* initialization carries the feature index 0, whatever the device answered
\* while the features were resolved.
C19_RootRequestsCarryIndexZero ==
    lev.step = "ping" => (lev.frame[3] = 0 /\ features.root = 0)

\* ------------------------------------------------------------ the transport alone

\* A bug: the transport can be called while a request waits for its reply.
ExclusiveNever(r) == TRUE

\* device.rs:52 and 77, `&mut self`: request and next_unrequested_msg borrow
\* the Device until they return, and request returns only when it stopped
\* waiting, so a call starts only while no request waits
Exclusive(r) == r.pc = "idle"

\* How many replies the device may owe at a time.
MaxOwed == 1

\* What a frame read while the request `data` waits answers: this write
\* ("reply"), an earlier write of the same frame whose request timed out
\* ("late"), or no write.  The reply to a request carries its frame, so the
\* two look the same.
Origins(r, data, owed) ==
    IF r.kind = "data" /\ r.frame = data
    THEN {"reply"} \cup (IF data \in owed THEN {"late"} ELSE {})
    ELSE {"none"}

\* The replies still owed once a read has delivered a late one.
Delivered(owed, data, origin) == IF origin = "late" THEN owed \ {data} ELSE owed

\* The replies the device owes after the turn s of the loop of
\* Device::request: the reply to a request that timed out, and the reply to
\* a request that returned with a late one, are still to come.
OwedAfter(owed, data, origin, s) ==
    IF /\ s.done /\ (s.kind = "Timeout" \/ (s.kind = "Ok" /\ origin = "late"))
       /\ Cardinality(Delivered(owed, data, origin)) < MaxOwed
    THEN Delivered(owed, data, origin) \cup {data}
    ELSE Delivered(owed, data, origin)

\* device.rs:52-55: Device::request writes the frame; a failed write returns
request_write ==
    /\ Exclusive(rq)
    /\ Len(msg_buffer) <= MaxCarried
    /\ \E data \in RequestFrames, written \in BOOLEAN :
          IF written
          THEN /\ rq' = [pc |-> "reading", data |-> data, elapsed |-> 0]
               /\ ret' = Returned("request", "Pending", <<>>, data, 0)
          ELSE /\ rq' = Idle
               /\ ret' = Returned("request", "IoErr", <<>>, data, 0)
    /\ ev' = Event("write", NoRead, Len(msg_buffer), <<>>)
    /\ late' = [late EXCEPT !.got = "none"]
    /\ UNCHANGED <<msg_buffer, arrivals>>
    /\ UNCHANGED loop_vars
    /\ UNCHANGED calc

\* device.rs:57-73: one read of the waiting request
request_read ==
    /\ rq.pc = "reading"
    /\ \E r \in ReadOutcomes(UnsolicitedFrames \cup {rq.data}, READ_TIMEOUT_MS) :
       \E origin \in Origins(r, rq.data, late.owed) :
          LET s == RequestStep(msg_buffer, rq.data, rq.elapsed, r) IN
          /\ late' = [owed |-> OwedAfter(late.owed, rq.data, origin, s), got |-> origin]
          /\ msg_buffer' = s.buf
          /\ rq' = IF s.done THEN Idle ELSE [rq EXCEPT !.elapsed = s.elapsed]
          /\ ret' = IF s.done
                    THEN Returned("request", s.kind, s.frame, rq.data, s.elapsed)
                    ELSE ret
          /\ arrivals' = IF r.kind = "data" /\ ~IsReplyTo(r.frame, rq.data)
                         THEN Append(arrivals, r.frame)
                         ELSE arrivals
          /\ ev' = Event("request_read", r, Len(msg_buffer), <<>>)
    /\ UNCHANGED loop_vars
    /\ UNCHANGED calc

\* device.rs:77-87: Device::next_unrequested_msg
next_unrequested_msg ==
    /\ Exclusive(rq)
    /\ \E r \in (IF msg_buffer # <<>>
                 THEN {NoRead}
                 ELSE ReadOutcomes(UnsolicitedFrames, TIMEOUT_IN_MS)) :
          LET m == NextUnrequestedMsg(msg_buffer, r) IN
          /\ ret' = Returned("next", m.kind, m.frame, <<>>, 0)
          /\ msg_buffer' = m.buf
          /\ arrivals' = IF msg_buffer # <<>> THEN Tail(arrivals) ELSE arrivals
          /\ ev' = Event("next", m.r, Len(msg_buffer),
                         IF msg_buffer # <<>> THEN Head(arrivals) ELSE <<>>)
    /\ UNCHANGED <<rq, late>>
    /\ UNCHANGED loop_vars
    /\ UNCHANGED calc

DevNext == request_write \/ request_read \/ next_unrequested_msg

\* The transport alone: requests and polls in any order, one at a time.  The
\* blocking read of a waiting request returns within its timeout.
SpecDevice == Init(ConfigEnv) /\ [][DevNext]_vars /\ WF_vars(request_read)

\* ------------------------------------------------------------ claims: transport

C1_RequestCorrelation ==
    /\ (ret.op = "request" /\ ret.kind = "Ok") => IsReplyTo(ret.frame, ret.data)
    /\ (ev.op = "request_read" /\ ev.r.kind = "data" /\ ~IsReplyTo(ev.r.frame, ret.data))
          => /\ Len(msg_buffer) = ev.had + 1
             /\ msg_buffer[Len(msg_buffer)] = ev.r.frame
    /\ \A i \in 1..Len(msg_buffer) : i <= Len(arrivals) /\ msg_buffer[i] = arrivals[i]

\* C1 witness: a request returned its reply after a frame that shares three
\* header bytes with it was read and buffered.
C1_Witness ==
    /\ ret.op = "request" /\ ret.kind = "Ok"
    /\ \E i \in 1..Len(msg_buffer) :
          /\ Len(msg_buffer[i]) >= 4
          /\ SubSeq(msg_buffer[i], 1, 3) = SubSeq(ret.data, 1, 3)
          /\ msg_buffer[i][4] # ret.data[4]

\* C2: the buffered frames are handed out by next_unrequested_msg in their
\* arrival order, oldest first, and a call that finds the buffer non-empty
\* reads nothing from the device; a read happens only when the buffer is empty.
C2_FifoBeforeFreshRead ==
    /\ msg_buffer = arrivals
    /\ (ev.op = "next" /\ ev.had > 0)
          => /\ ev.r = NoRead
             /\ ret.kind = "Some"
             /\ ret.frame = ev.oldest
             /\ Len(msg_buffer) = ev.had - 1
    /\ (ev.op = "next" /\ ev.r # NoRead) => ev.had = 0

\* C2 witness: two different frames were buffered over two requests and the
\* older one has just been handed out while the newer one still waits.
C2_Witness ==
    /\ ev.op = "next" /\ ev.had >= 3
    /\ msg_buffer # <<>>
    /\ ret.frame # msg_buffer[Len(msg_buffer)]
    /\ ret.frame # <<>>

\* C3: a waiting request never outlives its deadline by more than the read in
\* progress, it ends with the reply, a timeout (only once more than the
\* deadline has passed since the write) or an error of the channel, and every
\* request that waits ends.
C3_RequestTerminates ==
    /\ [](rq.pc = "reading" => rq.elapsed <= REQUEST_DEADLINE_MS)
    /\ [](ret.op = "request" =>
            /\ ret.kind \in {"Pending", "Ok", "Timeout", "IoErr"}
            /\ ret.kind = "Pending" <=> rq.pc = "reading"
            /\ ret.kind = "Timeout" => ret.elapsed > REQUEST_DEADLINE_MS
            /\ ret.elapsed <= REQUEST_DEADLINE_MS + READ_TIMEOUT_MS)
    /\ (rq.pc = "reading" ~> rq.pc = "idle")

\* C3 witness: a request timed out although the device kept sending frames
\* that were not its reply.
C3_Witness ==
    /\ ret.op = "request" /\ ret.kind = "Timeout"
    /\ Len(msg_buffer) >= 5
    /\ \A i \in 1..Len(msg_buffer) : msg_buffer[i] # <<>>

C26_BufferHoldsOnlyDeviceFrames ==
    /\ [](\A i \in 1..Len(msg_buffer) : msg_buffer[i] # <<>>)
    /\ [][(lp = "poll" /\ msg_buffer # <<>>) => counter' = counter]_vars

\* C27: a frame Device::request returns was sent by the device in reply to
\* the write of that invocation; the late reply to an earlier request that
\* timed out is never returned as the result of a later request.
C27_ReplyAnswersItsOwnWrite ==
    (ret.op = "request" /\ ret.kind = "Ok") => late.got = "reply"

\* The n-th frame that was put into the message buffer has been put there.
Pushed(n) == popped + Len(msg_buffer) >= n

OwnComponent(class) ==
    CASE class = "mic_arm" -> {"mic_arm"}
      [] class = "buttons" -> {"buttons"}
      [] class = "wheel" -> {"wheel"}
      [] OTHER -> {}

\* C30: a mic-arm frame changes only mic_arm of the stored ButtonState, a
\* G-key frame only buttons, a wheel frame only wheel, and no other step of
\* the loop changes the stored state; the handler is passed the stored state,
\* for a mute frame with mute_button set, and mute_button is false in the
\* stored state and in every state passed for another frame.
C30_EventChangesOwnComponent ==
    /\ [][(lp \in {"poll", "periodic", "sync"} /\ lp' # "panicked")
             => /\ \A c \in DOMAIN button_state :
                      button_state'[c] # button_state[c]
                          => (lev'.step = "poll" /\ c \in OwnComponent(lev'.class))
                /\ \A k \in 1..Len(lev'.calls) :
                      lev'.calls[k].field = "button_handler"
                          => lev'.calls[k].state =
                                [button_state' EXCEPT !.mute_button = (lev'.class = "mute")]]_vars
    /\ [](~button_state.mute_button)

\* The handler was called for a mute frame with the mic arm still down from
\* an earlier frame, and the stored state has no mute button in it.
C30_Witness ==
    /\ lev.step = "poll" /\ lev.class = "mute"
    /\ lev.calls # <<>> /\ lev.calls[1].state.mute_button
    /\ lev.calls[1].state.mic_arm = "Down" /\ lev.calls[1].state.buttons.g1
    /\ button_state.mic_arm = "Down" /\ ~button_state.mute_button

\* ------------------------------------------------------------ the pure functions alone

\* The values a u8 field is exercised with.
SampleBytes == {0, 1, 255}

\* The values a u16 rate is exercised with: both bytes differ in 258 and 511.
SampleRates == {0, 258, 511, 65535}

\* lights.rs:16-48: every variant of Effect
SampleEffects ==
    {Off}
    \cup {Static(r, g, b) : r \in SampleBytes, g \in SampleBytes, b \in SampleBytes}
    \cup UNION {{Breathing(r, g, b, rate, br) : r \in SampleBytes, g \in SampleBytes,
                                                b \in SampleBytes, br \in SampleBytes}
                   : rate \in SampleRates}
    \cup {ColorCycle(rate, br) : rate \in SampleRates, br \in SampleBytes}

\* lights.rs:67-74: every zone, effect and profile type
SampleLights ==
    {LightsConfig(light, effect, profile) :
        light \in {"Logo", "Side"}, effect \in SampleEffects,
        profile \in {"Temporary", "Permanent"}}

\* buttons.rs:6-16 and 81-125: every ButtonState
ButtonStates ==
    [buttons : [g1 : BOOLEAN, g2 : BOOLEAN, g3 : BOOLEAN],
     wheel : [up : BOOLEAN, down : BOOLEAN],
     mic_arm : {"Up", "Down"},
     mute_button : BOOLEAN]

\* buttons.rs:18-78: what every method of ButtonState answers for (self, old)
Edges(self, old) ==
    [mic_flipped_up |-> mic_flipped_up(self, old),
     mic_flipped_down |-> mic_flipped_down(self, old),
     g1_pressed |-> g1_pressed(self, old), g1_released |-> g1_released(self, old),
     g2_pressed |-> g2_pressed(self, old), g2_released |-> g2_released(self, old),
     g3_pressed |-> g3_pressed(self, old), g3_released |-> g3_released(self, old),
     scroll_down |-> scroll_down(self), scroll_up |-> scroll_up(self),
     mute_button_pressed |-> mute_button_pressed(self),
     scroll_end |-> scroll_end(self, old)]

\* The largest u16.
MaxVoltage == 65535

\* The voltage bytes a battery reply is exercised with: 3525 is <<13, 197>>
\* and 4030 is <<15, 190>>.
SampleHigh == {0, 13, 15, 16, 255}

SampleLow == {0, 1, 189, 190, 191, 197, 198, 255}

Calc(fn, arg, out) == [fn |-> fn, arg |-> arg, out |-> out]

\* lights.rs:76-178: a configuration is encoded and the body decoded
lights_round_trip ==
    /\ calc = NoCalc
    /\ \E c \in SampleLights :
          calc' = Calc("lights", c, LightsFromBytes(LightsAsBytes(c)))
    /\ UNCHANGED <<dev_vars, loop_vars>>

\* buttons.rs:18-78: the methods of a ButtonState applied to a pair
button_edges ==
    /\ calc = NoCalc
    /\ \E self \in ButtonStates, old \in ButtonStates :
          calc' = Calc("edges", [self |-> self, old |-> old], Edges(self, old))
    /\ UNCHANGED <<dev_vars, loop_vars>>

\* buttons.rs:128-140: MicArm::from_bytes on a two-byte frame
mic_arm_from_bytes ==
    /\ calc = NoCalc
    /\ \E b \in 0..255 :
          calc' = Calc("mic_arm", <<8, b>>, MicArmFromBytes(<<8, b>>))
    /\ UNCHANGED <<dev_vars, loop_vars>>

\* battery.rs:55-78: BatteryStatus::from_bytes on the body of a reply
battery_from_bytes ==
    /\ calc = NoCalc
    /\ \E hi \in SampleHigh, lo \in SampleLow, s \in 0..255, pad \in {0, 13} :
          calc' = Calc("battery", <<hi, lo, s>> \o Zeros(pad),
                       BatteryStatusFromBytes(<<hi, lo, s>> \o Zeros(pad)))
    /\ UNCHANGED <<dev_vars, loop_vars>>

\* battery.rs:8-21: estimate_battery_level on a u16
estimate ==
    /\ calc = NoCalc
    /\ \E v \in 0..MaxVoltage : calc' = Calc("estimate", v, estimate_battery_level(v))
    /\ UNCHANGED <<dev_vars, loop_vars>>

CodecNext ==
    \/ lights_round_trip
    \/ button_edges
    \/ mic_arm_from_bytes
    \/ battery_from_bytes
    \/ estimate

\* The pure functions of lights.rs, buttons.rs and battery.rs applied to
\* inputs drawn from the sets above, with no application running.
SpecCodec == Init(ConfigEnv) /\ [][CodecNext]_vars

\* ------------------------------------------------------------ claims: pure functions

\* C22: decoding the 13-byte body that encoding a light configuration
\* produced gives the configuration back: zone, effect variant with all
\* its fields, and profile type.
C22_DecodeOfEncodeIsIdentity ==
    calc.fn = "lights" => calc.out = calc.arg

\* A Breathing effect whose rate has two different bytes went through the
\* round trip on the side zone with a permanent profile.
C22_Witness ==
    /\ calc.fn = "lights"
    /\ calc.arg.effect.kind = "Breathing" /\ calc.arg.effect.rate = 258
    /\ calc.arg.effect.brightness = 255 /\ calc.arg.effect.red = 1
    /\ calc.arg.light = "Side" /\ calc.arg.profile_type = "Permanent"
    /\ calc.out.effect.rate = 258

\* C23: gN_pressed is true exactly when the key is up in old and down in
\* new, gN_released exactly when it is down in old and up in new, never both;
\* mic_flipped_up and mic_flipped_down follow the position of the mic arm in
\* the same way.
C23_EdgesFollowOldAndNew ==
    calc.fn = "edges" =>
        /\ \A k \in {"g1", "g2", "g3"} :
              /\ calc.out[k \o "_pressed"]
                    <=> (~calc.arg.old.buttons[k] /\ calc.arg.self.buttons[k])
              /\ calc.out[k \o "_released"]
                    <=> (calc.arg.old.buttons[k] /\ ~calc.arg.self.buttons[k])
              /\ ~(calc.out[k \o "_pressed"] /\ calc.out[k \o "_released"])
        /\ calc.out.mic_flipped_up
              <=> (calc.arg.old.mic_arm = "Down" /\ calc.arg.self.mic_arm = "Up")
        /\ calc.out.mic_flipped_down
              <=> (calc.arg.old.mic_arm = "Up" /\ calc.arg.self.mic_arm = "Down")
        /\ ~(calc.out.mic_flipped_up /\ calc.out.mic_flipped_down)

\* G2 went down while G1 stayed up and G3 was released, and the arm came up.
C23_Witness ==
    /\ calc.fn = "edges"
    /\ ~calc.arg.old.buttons.g2 /\ calc.arg.self.buttons.g2
    /\ ~calc.arg.old.buttons.g1 /\ ~calc.arg.self.buttons.g1
    /\ calc.out.g2_pressed /\ calc.out.g3_released /\ calc.out.mic_flipped_up

\* C24: charging status 1, 3, 7 decodes to Discharging, Charging, Full and
\* every other byte to Discharging; mic-arm 0x10, 0x20 decodes to Up, Down
\* and every other byte to Up; the voltage is the big-endian value of bytes
\* 0 and 1.  Every byte value has a result.
C24_DiscriminantsDecodeTotally ==
    /\ calc.fn = "battery" =>
          /\ calc.out.charging_status =
                (CASE calc.arg[3] = 3 -> "Charging"
                   [] calc.arg[3] = 7 -> "Full"
                   [] OTHER -> "Discharging")
          /\ calc.out.voltage = 256 * calc.arg[1] + calc.arg[2]
    /\ calc.fn = "mic_arm" =>
          calc.out = (IF calc.arg[2] = 32 THEN "Down" ELSE "Up")

\* A reply with an unknown charging status and two different voltage bytes
\* was decoded.
C24_Witness ==
    /\ calc.fn = "battery"
    /\ calc.arg[3] = 9 /\ calc.arg[1] = 13 /\ calc.arg[2] = 197
    /\ calc.out.charging_status = "Discharging" /\ calc.out.voltage = 3525

\* C25: the estimate selects its branch by the voltage alone: up to 3525 it
\* is 0.03 * V - 101.0, above 4030 it is 100.0, and the quartic is used
\* exactly between.
C25_BranchByVoltage ==
    calc.fn = "estimate" =>
        /\ calc.arg <= 3525 =>
              (calc.out.branch = "linear" /\ calc.out.hundredths = <<3 * calc.arg - 10100>>)
        /\ calc.arg > 4030 =>
              (calc.out.branch = "full" /\ calc.out.hundredths = <<10000>>)
        /\ calc.out.branch = "quartic" <=> (3525 < calc.arg /\ calc.arg <= 4030)

\* The last voltage of the first branch was estimated.
C25_Witness ==
    /\ calc.fn = "estimate" /\ calc.arg = 3525
    /\ calc.out.branch = "linear" /\ calc.out.hundredths = <<475>>

====
